---- MODULE Spec2Model ----
(***************************************************************************)
(* PiHoleLongTermStats: the ingestion-and-aggregation pipeline.            *)
(*   db.py       connect_to_sql, probe_sample_df, get_timestamp_range,     *)
(*               read_pihole_ftl_db                                         *)
(*   process.py  preprocess_df, prepare_hourly_aggregated_data             *)
(* Times are Unix seconds.  An optional value (Python None) is the empty   *)
(* sequence, a present value v is <<v>>.                                    *)
(***************************************************************************)
EXTENDS Integers, Sequences, FiniteSets, TLC

VARIABLES
    \* ---- read_pihole_ftl_db: one generator object and its consumer
    gen,              \* "created" | "running" | "suspended" | "done" | "raised" | "closed"
    pc,               \* position inside the generator body
    args,             \* the arguments bound when the generator is created
    chunksize,        \* the chunksize argument: db_idx -> rows per chunk
    start_timestamp,  \* set by get_timestamp_range (db.py 315)
    end_timestamp,
    db_idx,           \* loop variable of the for over db_paths
    stored,           \* db_idx -> the query_storage rows of the files opened so far
    result,           \* rows the query of the current database selects
    cursor,           \* number of rows of result already fetched
    has_read_data,    \* the current query has produced a non-empty chunk
    open,             \* set of db_idx whose connection is open
    yielded,          \* chunks handed to the consumer, in order
    requests,         \* number of next() calls of the consumer
    err,              \* <<>> or <<exception name>>
    \* ---- get_timestamp_range
    w_in, w_out,
    \* ---- probe_sample_df
    p_in, p_out,
    \* ---- preprocess_df / prepare_hourly_aggregated_data
    df, stage, timezone, agg,
    last,             \* <<>> or <<name, input frame and arguments of the latest call of
                      \* resolve_hostnames, regex_ignore_domains or the whole enrichment>>
    \* ---- the mapping loaders of db.py
    loader,           \* <<>> or <<the frame of the loader call in progress>>
    l_open,           \* number of connections the loaders hold open
    l_ret             \* <<>> or <<what the most recent loader call returned or raised>>

readerVars == <<gen, pc, args, chunksize, start_timestamp, end_timestamp, db_idx,
                stored, result, cursor, has_read_data, open, yielded, requests, err>>
windowVars == <<w_in, w_out>>
plannerVars == <<p_in, p_out>>
frameVars == <<df, stage, timezone, agg, last>>
loaderVars == <<loader, l_open, l_ret>>
vars == <<readerVars, windowVars, plannerVars, frameVars, loaderVars>>

None == <<>>
Some(v) == <<v>>

Max(a, b) == IF a >= b THEN a ELSE b

RECURSIVE SumSeq(_)
SumSeq(s) == IF s = <<>> THEN 0 ELSE Head(s) + SumSeq(Tail(s))

(***************************************************************************)
(* Calendar and time zones (datetime.strptime, timedelta, ZoneInfo).       *)
(***************************************************************************)
Date(y, m, d) == [y |-> y, m |-> m, d |-> d]

IsLeap(y) == (y % 4 = 0) /\ ((y % 100 # 0) \/ (y % 400 = 0))

DaysInMonth(y, m) ==
    IF m = 2 THEN (IF IsLeap(y) THEN 29 ELSE 28)
    ELSE IF m \in {4, 6, 9, 11} THEN 30 ELSE 31

RECURSIVE DaysBeforeMonth(_, _)
DaysBeforeMonth(y, m) ==
    IF m = 1 THEN 0 ELSE DaysBeforeMonth(y, m - 1) + DaysInMonth(y, m - 1)

\* proleptic Gregorian ordinal of a date, 0001-01-01 being day 1
Ordinal(dt) ==
    LET y1 == dt.y - 1
    IN  y1 * 365 + (y1 \div 4) - (y1 \div 100) + (y1 \div 400)
        + DaysBeforeMonth(dt.y, dt.m) + dt.d

\* datetime.strptime(s, "%Y-%m-%d"): the naive wall-clock second of midnight of
\* the date, counted from 1970-01-01 00:00 (ordinal 719163)
strptime(dt) == (Ordinal(dt) - 719163) * 86400

\* timedelta(days = n) added to a wall-clock second
timedelta(n) == n * 86400

\* The time zones of the model.  A zone is its UTC offset before and after one
\* transition at the UTC instant `at`; a zone that never changes has equal
\* offsets.  Each zone is used only with dates and instants of the period in
\* which this is the zone's only transition (ZoneDates, ZoneNows).
\*   Europe/Berlin  2024-03-31 01:00Z  +01:00 -> +02:00  (an hour is skipped)
\*   Pacific/Apia   2011-12-30 10:00Z  -10:00 -> +14:00  (2011-12-30 is skipped)
KnownZones == {"UTC", "Asia/Tokyo", "Asia/Kolkata", "Europe/Berlin", "Pacific/Apia"}

ZoneRules(name) ==
    CASE name = "Asia/Tokyo"    -> [at |-> 0, before |-> 32400, after |-> 32400]
      [] name = "Asia/Kolkata"  -> [at |-> 0, before |-> 19800, after |-> 19800]
      [] name = "Europe/Berlin" -> [at |-> 1711846800, before |-> 3600, after |-> 7200]
      [] name = "Pacific/Apia"  -> [at |-> 1325239200, before |-> 0 - 36000, after |-> 50400]
      [] OTHER                  -> [at |-> 0, before |-> 0, after |-> 0]

\* try: ZoneInfo(timezone) except: ZoneInfo("UTC")
ZoneInfo(name) == IF name \in KnownZones THEN ZoneRules(name) ELSE ZoneRules("UTC")

\* the offset of an instant given in UTC
OffsetAtUTC(tz, t) == IF t < tz.at THEN tz.before ELSE tz.after

\* the offset of a wall-clock time (fold = 0): a skipped or a repeated wall time
\* takes the offset in force before the transition
OffsetAtWall(tz, w) ==
    IF w < tz.at + Max(tz.before, tz.after) THEN tz.before ELSE tz.after

\* int(naive.replace(tzinfo = tz).astimezone(UTC).timestamp())
WallToTimestamp(tz, w) == w - OffsetAtWall(tz, w)

\* datetime.now(tz) is the instant now = [sec, micro], carried as its wall time
\* in tz; int(.timestamp()) drops the microseconds
NowWall(tz, now) == now.sec + OffsetAtUTC(tz, now.sec)

(***************************************************************************)
(* get_timestamp_range (db.py 218-262)                                     *)
(***************************************************************************)
ExplicitBranch(start_date, end_date) == start_date # None /\ end_date # None

AllTimeBranch(days, min_date_available) == days = -1 /\ min_date_available # None

MutExclusiveEnd(tz, start_date, end_date) ==
    <<WallToTimestamp(tz, strptime(start_date[1])), WallToTimestamp(tz, strptime(end_date[1]))>>

\* db.py 234-238: the end date advanced by one calendar day
ExplicitRange(tz, start_date, end_date) ==
    LET start_dt == strptime(start_date[1])
        end_dt   == strptime(end_date[1]) + timedelta(1)
    IN  <<WallToTimestamp(tz, start_dt), WallToTimestamp(tz, end_dt)>>

\* db.py 241-242: min_date_available is an aware UTC instant
AllTimeRange(min_date_available, now) == <<min_date_available[1], now.sec>>

\* db.py 248-249: the subtraction is done on the wall clock of tz
DayCountRange(tz, days, now) ==
    <<WallToTimestamp(tz, NowWall(tz, now) - timedelta(days)), now.sec>>

MutBranchOrder(days, start_date, end_date, tzname, min_date_available, now) ==
    LET tz == ZoneInfo(tzname)
    IN  IF AllTimeBranch(days, min_date_available)
        THEN AllTimeRange(min_date_available, now)
        ELSE IF ExplicitBranch(start_date, end_date)
        THEN ExplicitRange(tz, start_date, end_date)
        ELSE DayCountRange(tz, days, now)

get_timestamp_range(days, start_date, end_date, tzname, min_date_available, now) ==
    LET tz == ZoneInfo(tzname)
    IN  IF ExplicitBranch(start_date, end_date)
        THEN ExplicitRange(tz, start_date, end_date)
        ELSE IF AllTimeBranch(days, min_date_available)
        THEN AllTimeRange(min_date_available, now)
        ELSE DayCountRange(tz, days, now)

(***************************************************************************)
(* Idle values of the parts a specification does not exercise.             *)
(***************************************************************************)
ReaderIdle ==
    /\ gen = "created" /\ pc = "start" /\ args = None /\ chunksize = <<>>
    /\ start_timestamp = 0 /\ end_timestamp = 0 /\ db_idx = 0
    /\ stored = <<>> /\ result = <<>> /\ cursor = 0 /\ has_read_data = FALSE
    /\ open = {} /\ yielded = <<>> /\ requests = 0 /\ err = None

WindowIdle == w_in = None /\ w_out = None

PlannerIdle == p_in = None /\ p_out = None

LoaderIdle == loader = None /\ l_open = 0 /\ l_ret = None

FrameIdle ==
    df = <<>> /\ stage = "idle" /\ timezone = "UTC" /\ agg = None /\ last = None

(***************************************************************************)
(* The window resolver on its own: SpecWindow.                             *)
(***************************************************************************)
ZoneNames == KnownZones \cup {"Mars/Olympus"}

\* calendar dates offered with each zone
ZoneDates(name) ==
    CASE name = "Europe/Berlin" -> {Date(2024, 3, 30), Date(2024, 3, 31), Date(2024, 4, 1)}
      [] name = "Pacific/Apia"  -> {Date(2011, 12, 29), Date(2011, 12, 30), Date(2011, 12, 31)}
      [] OTHER                  -> {Date(2023, 12, 31), Date(2024, 1, 1), Date(2024, 2, 29)}

\* values of the clock offered with each zone
ZoneNows(name) ==
    CASE name = "Europe/Berlin" -> {[sec |-> 1711843200, micro |-> 0],
                                    [sec |-> 1711929599, micro |-> 999999]}
      [] name = "Pacific/Apia"  -> {[sec |-> 1325200000, micro |-> 5],
                                    [sec |-> 1325300000, micro |-> 0]}
      [] OTHER                  -> {[sec |-> 1704110400, micro |-> 250000],
                                    [sec |-> 1709251199, micro |-> 999999]}

\* the earliest record instant, or None
ZoneMinDates(name) ==
    CASE name = "Europe/Berlin" -> {None, Some(1700000000)}
      [] name = "Pacific/Apia"  -> {None, Some(1320000000)}
      [] OTHER                  -> {None, Some(1690000000)}

DayCounts == {-1, 1, 7}

WindowInputs ==
    UNION { [days : DayCounts,
             start_date : {None} \cup {Some(d) : d \in ZoneDates(z)},
             end_date : {None} \cup {Some(d) : d \in ZoneDates(z)},
             timezone : {z},
             min_date_available : ZoneMinDates(z),
             now : ZoneNows(z)] : z \in ZoneNames }

Resolve(i) ==
    get_timestamp_range(i.days, i.start_date, i.end_date, i.timezone,
                        i.min_date_available, i.now)

InitWindow ==
    /\ w_in \in {Some(i) : i \in WindowInputs}
    /\ w_out = None
    /\ ReaderIdle /\ PlannerIdle /\ FrameIdle /\ LoaderIdle

ResolveWindow ==
    /\ w_in # None /\ w_out = None
    /\ w_out' = Some(Resolve(w_in[1]))
    /\ UNCHANGED <<w_in, readerVars, plannerVars, frameVars, loaderVars>>

NextWindow == ResolveWindow

SpecWindow == InitWindow /\ [][NextWindow]_vars

\* C6: the window is resolved with the precedence explicit date range > all time >
\* day count: with both dates given the result is that of the dates, whatever days,
\* min_date_available and the clock are; otherwise with days = -1 and the earliest
\* instant given it is <<earliest instant, now>>; otherwise it ends now and starts
\* `days` days earlier (on the zone's wall clock).
C6_Precedence ==
    w_out # None =>
        LET i == w_in[1]
            o == w_out[1]
            tz == ZoneInfo(i.timezone)
            both == i.start_date # None /\ i.end_date # None
            alltime == i.days = -1 /\ i.min_date_available # None
            shift == o[1] - (i.now.sec - i.days * 86400)
        IN  /\ both =>
                \A d \in DayCounts, m \in ZoneMinDates(i.timezone), n \in ZoneNows(i.timezone) :
                    get_timestamp_range(d, i.start_date, i.end_date, i.timezone, m, n) = o
            /\ (~both /\ alltime) => o = <<i.min_date_available[1], i.now.sec>>
            /\ (~both /\ ~alltime) =>
                /\ o[2] = i.now.sec
                /\ tz.before = tz.after => shift = 0
                /\ shift \in {0, tz.before - tz.after, tz.after - tz.before}

\* C6 witness: all three branches are exercised; here days = -1 with the earliest
\* instant and both dates given, resolved by the dates.
C6_Witness ==
    /\ w_out # None
    /\ w_in[1].days = -1 /\ w_in[1].min_date_available # None
    /\ w_in[1].start_date # None /\ w_in[1].end_date # None
    /\ w_out[1][1] # w_in[1].min_date_available[1]

\* C7 as claimed: for an explicit range with start_date <= end_date, start_ts < end_ts
\* always, and a same-day range in zone UTC spans exactly 86400 s from the UTC
\* midnight of start_date to the UTC midnight of the day after end_date.
C7_Original ==
    (w_out # None /\ w_in[1].start_date # None /\ w_in[1].end_date # None
        /\ Ordinal(w_in[1].start_date[1]) <= Ordinal(w_in[1].end_date[1])) =>
        LET i == w_in[1]
            o == w_out[1]
        IN  /\ o[1] < o[2]
            /\ (i.timezone = "UTC" /\ i.start_date = i.end_date) =>
                /\ o[2] - o[1] = 86400
                /\ o[1] = (Ordinal(i.start_date[1]) - 719163) * 86400

\* C7 amended: start_ts <= end_ts always; when the zone has the same UTC offset at both
\* local midnights (always so in UTC) the interval is exactly 86400 s per calendar
\* day of the range, hence start_ts < end_ts; the UTC same-day case is as claimed.
C7_InclusiveEnd ==
    (w_out # None /\ w_in[1].start_date # None /\ w_in[1].end_date # None
        /\ Ordinal(w_in[1].start_date[1]) <= Ordinal(w_in[1].end_date[1])) =>
        LET i == w_in[1]
            o == w_out[1]
            tz == ZoneInfo(i.timezone)
            ndays == Ordinal(i.end_date[1]) - Ordinal(i.start_date[1]) + 1
            midnight0 == (Ordinal(i.start_date[1]) - 719163) * 86400
            midnight1 == (Ordinal(i.end_date[1]) + 1 - 719163) * 86400
        IN  /\ o[1] <= o[2]
            /\ OffsetAtWall(tz, midnight0) = OffsetAtWall(tz, midnight1) =>
                /\ o[2] - o[1] = 86400 * ndays
                /\ o[1] < o[2]
            /\ i.timezone = "UTC" => o = <<midnight0, midnight1>>
            /\ (i.timezone = "UTC" /\ i.start_date = i.end_date) => o[2] - o[1] = 86400
            /\ (i.timezone = "UTC" /\ i.start_date = Some(Date(2024, 1, 1))
                    /\ i.end_date = Some(Date(2024, 1, 1))) =>
                o = <<1704067200, 1704153600>>

\* C7 witness: the same-day range 2024-01-01 in zone UTC has been resolved.
C7_Witness ==
    /\ w_out = Some(<<1704067200, 1704153600>>)
    /\ w_in[1].timezone = "UTC"
    /\ w_in[1].start_date = Some(Date(2024, 1, 1))
    /\ w_in[1].end_date = Some(Date(2024, 1, 1))

(***************************************************************************)
(* probe_sample_df (db.py 33-60) on its own: SpecPlanner.                  *)
(***************************************************************************)
\* LIMIT 5 of the sample query
SampleLimit == 5

Min(a, b) == IF a <= b THEN a ELSE b

\* int(x / y) for x >= 0, y > 0
FloorDiv(x, y) == x \div y

\* db.py 42-45: memory_per_row = sample bytes / len(sample), safe_memory = half the
\* available memory, chunksize = int(safe_memory / memory_per_row), for a sample
\* of at least one row
PlanChunksize(available_memory, sample_len, sample_bytes) ==
    FloorDiv(available_memory * sample_len, 2 * sample_bytes)

\* psutil.virtual_memory().available, in bytes
AvailableMemory == {0, 1, 100, 399, 400, 4096, 1048576, 268435456}

\* number of rows of the queries table (not empty)
TableRows == 1 .. 7

\* bytes of the sample frame's index and of one sample row (deep)
IndexBytes == {128, 132}
RowBytes == {200, 333}

PlannerInputs ==
    [available : AvailableMemory, nrows : TableRows, index_bytes : IndexBytes,
     row_bytes : RowBytes, oldest : {1690000000}, latest : {1704110400}]

probe_sample_df(i) ==
    LET sample_len   == Min(i.nrows, SampleLimit)
        sample_bytes == i.index_bytes + sample_len * i.row_bytes
    IN  [chunksize |-> PlanChunksize(i.available, sample_len, sample_bytes),
         latest_ts |-> i.latest,
         oldest_ts |-> i.oldest]

InitPlanner ==
    /\ p_in \in {Some(i) : i \in PlannerInputs}
    /\ p_out = None
    /\ ReaderIdle /\ WindowIdle /\ FrameIdle /\ LoaderIdle

Probe ==
    /\ p_in # None /\ p_out = None
    /\ p_out' = Some(probe_sample_df(p_in[1]))
    /\ UNCHANGED <<p_in, readerVars, windowVars, frameVars, loaderVars>>

NextPlanner == Probe

SpecPlanner == InitPlanner /\ [][NextPlanner]_vars

\* C8: the chunk planner returns chunk_size >= 1 for every value of the available
\* memory and every sample.
C8_ChunkAtLeastOne == p_out # None => p_out[1].chunksize >= 1

(***************************************************************************)
(* read_pihole_ftl_db (db.py 304-345): a generator and its consumer.       *)
(* Spec.                                                                    *)
(***************************************************************************)
NumDbs == 2      \* longest db_paths list
MaxRows == 2     \* rows of query_storage, over all the files of a run
MaxChunk == 2    \* largest chunksize[db_idx]

\* the window arguments a generator is created with
ReaderWindows ==
    { [days |-> 31, start_date |-> Some(Date(2024, 1, 1)), end_date |-> Some(Date(2024, 1, 1)),
       timezone |-> "UTC", min_date_available |-> None],
      [days |-> 1, start_date |-> None, end_date |-> None,
       timezone |-> "UTC", min_date_available |-> None] }

ReaderArgs == { [ndbs |-> n, window |-> w] : n \in 0 .. NumDbs, w \in ReaderWindows }

\* the rows a file may hold: on and next to the bounds of the window, and one
\* whose client or domain id is in no lookup table
RowChoices(s, e) ==
    { [timestamp |-> t, resolves |-> TRUE] : t \in {s - 1, s, e - 1, e} }
        \cup { [timestamp |-> s, resolves |-> FALSE] }

\* the tables of n rows; a row's id is its position
Tables(n, s, e) ==
    { [k \in 1 .. n |-> [id |-> k, timestamp |-> f[k].timestamp, resolves |-> f[k].resolves]] :
        f \in [1 .. n -> RowChoices(s, e)] }

StoredTotal == SumSeq([k \in 1 .. Cardinality(DOMAIN stored) |-> Len(stored[k - 1])])

MutInWindow(t, s, e) == t >= s /\ t <= e

\* db.py 328: WHERE qs.timestamp >= start AND qs.timestamp < end
InWindow(t, s, e) == t >= s /\ t < e

\* db.py 323-329: the join drops the rows whose client or domain id does not resolve
Selects(r, s, e) == r.resolves /\ InWindow(r.timestamp, s, e)

QueryRows(table, s, e) == SelectSeq(table, LAMBDA r : Selects(r, s, e))

\* cursor.fetchmany(size) on the rows not yet fetched
FetchMany(rows, pos, size) == SubSeq(rows, pos + 1, Min(pos + size, Len(rows)))

MutNoClose(conns, i) == conns

\* db.py 345: conn.close()
CloseConn(conns, i) == conns \ {i}

MutEagerYield == "running"

\* db.py 343: the generator is suspended at yield until the next request
AtYield == "suspended"

\* db.py 331: the for loop takes the next path, or the generator returns
LoopTo(i) ==
    IF i < args[1].ndbs THEN /\ gen' = "running" /\ pc' = "connect"
                        ELSE /\ gen' = "done" /\ pc' = "end"

Init ==
    /\ gen = "created" /\ pc = "start"
    /\ args \in {Some(a) : a \in ReaderArgs}
    /\ chunksize \in UNION { [0 .. n - 1 -> 1 .. MaxChunk] : n \in 0 .. NumDbs }
    /\ DOMAIN chunksize = 0 .. args[1].ndbs - 1
    /\ start_timestamp = 0 /\ end_timestamp = 0 /\ db_idx = 0
    /\ stored = <<>> /\ result = <<>> /\ cursor = 0 /\ has_read_data = FALSE
    /\ open = {} /\ yielded = <<>> /\ requests = 0 /\ err = None
    /\ WindowIdle /\ PlannerIdle /\ FrameIdle /\ LoaderIdle

\* the consumer calls next()
Request ==
    /\ gen \in {"created", "suspended"}
    /\ gen' = "running"
    /\ requests' = requests + 1
    /\ UNCHANGED <<pc, args, chunksize, start_timestamp, end_timestamp, db_idx, stored,
                   result, cursor, has_read_data, open, yielded, err,
                   windowVars, plannerVars, frameVars, loaderVars>>

\* the consumer stops asking: close() or the generator is dropped; GeneratorExit is
\* raised at the yield, and no except or finally of the body handles it
Abandon ==
    /\ gen \in {"created", "suspended"}
    /\ gen' = "closed"
    /\ UNCHANGED <<pc, args, chunksize, start_timestamp, end_timestamp, db_idx, stored,
                   result, cursor, has_read_data, open, yielded, requests, err,
                   windowVars, plannerVars, frameVars, loaderVars>>

\* db.py 315-331: the body starts on the first request
Start ==
    /\ gen = "running" /\ pc = "start"
    /\ \E now \in ZoneNows(args[1].window.timezone) :
        LET w == args[1].window
            r == get_timestamp_range(w.days, w.start_date, w.end_date, w.timezone,
                                     w.min_date_available, now)
        IN  /\ start_timestamp' = r[1]
            /\ end_timestamp' = r[2]
    /\ LoopTo(0)
    /\ UNCHANGED <<args, chunksize, db_idx, stored, result, cursor, has_read_data,
                   open, yielded, requests, err,
                   windowVars, plannerVars, frameVars, loaderVars>>

\* db.py 335, 16-23: the path is a file, the connection is opened
Connect ==
    /\ gen = "running" /\ pc = "connect"
    /\ \E n \in 0 .. MaxRows - StoredTotal :
        \E table \in Tables(n, start_timestamp, end_timestamp) :
            stored' = (db_idx :> table) @@ stored
    /\ open' = open \cup {db_idx}
    /\ pc' = "query"
    /\ UNCHANGED <<gen, args, chunksize, start_timestamp, end_timestamp, db_idx, result,
                   cursor, has_read_data, yielded, requests, err,
                   windowVars, plannerVars, frameVars, loaderVars>>

\* db.py 335, 24-30: the path is no file
ConnectMissing ==
    /\ gen = "running" /\ pc = "connect"
    /\ gen' = "raised"
    /\ err' = Some("FileNotFoundError")
    /\ UNCHANGED <<pc, args, chunksize, start_timestamp, end_timestamp, db_idx, stored,
                   result, cursor, has_read_data, open, yielded, requests,
                   windowVars, plannerVars, frameVars, loaderVars>>

\* db.py 338: pd.read_sql_query executes the query and returns the chunk iterator
Query ==
    /\ gen = "running" /\ pc = "query"
    /\ result' = QueryRows(stored[db_idx], start_timestamp, end_timestamp)
    /\ cursor' = 0
    /\ has_read_data' = FALSE
    /\ pc' = "fetch"
    /\ UNCHANGED <<gen, args, chunksize, start_timestamp, end_timestamp, db_idx, stored,
                   open, yielded, requests, err,
                   windowVars, plannerVars, frameVars, loaderVars>>

\* db.py 338-343: the next chunk is fetched and yielded.  An exhausted query that
\* has produced nothing yields one empty chunk (pandas).
Fetch ==
    /\ gen = "running" /\ pc = "fetch"
    /\ LET data == FetchMany(result, cursor, chunksize[db_idx])
       IN  IF data # <<>>
           THEN /\ yielded' = Append(yielded, [db |-> db_idx, rows |-> data])
                /\ cursor' = cursor + Len(data)
                /\ has_read_data' = TRUE
                /\ gen' = AtYield
                /\ pc' = "fetch"
           ELSE IF ~has_read_data
           THEN /\ yielded' = Append(yielded, [db |-> db_idx, rows |-> <<>>])
                /\ gen' = AtYield
                /\ pc' = "close"
                /\ UNCHANGED <<cursor, has_read_data>>
           ELSE /\ pc' = "close"
                /\ UNCHANGED <<gen, yielded, cursor, has_read_data>>
    /\ UNCHANGED <<args, chunksize, start_timestamp, end_timestamp, db_idx, stored,
                   result, open, requests, err,
                   windowVars, plannerVars, frameVars, loaderVars>>

\* db.py 338: the query or a fetch fails (a table missing from a snapshot, a
\* damaged file); the exception leaves the generator
QueryError ==
    /\ gen = "running" /\ pc \in {"query", "fetch"}
    /\ gen' = "raised"
    /\ err' = Some("DatabaseError")
    /\ UNCHANGED <<pc, args, chunksize, start_timestamp, end_timestamp, db_idx, stored,
                   result, cursor, has_read_data, open, yielded, requests,
                   windowVars, plannerVars, frameVars, loaderVars>>

\* db.py 345, 331: the chunks are exhausted, the connection is closed and the loop
\* goes on
Close ==
    /\ gen = "running" /\ pc = "close"
    /\ open' = CloseConn(open, db_idx)
    /\ db_idx' = db_idx + 1
    /\ LoopTo(db_idx + 1)
    /\ UNCHANGED <<args, chunksize, start_timestamp, end_timestamp, stored, result,
                   cursor, has_read_data, yielded, requests, err,
                   windowVars, plannerVars, frameVars, loaderVars>>

Next ==
    \/ Request
    \/ Abandon
    \/ Start
    \/ Connect
    \/ ConnectMissing
    \/ Query
    \/ Fetch
    \/ QueryError
    \/ Close

Spec == Init /\ [][Next]_vars

\* ---- what the consumer has received, and what it should receive
ChunksOf(j) == SelectSeq(yielded, LAMBDA c : c.db = j)

RECURSIVE Flatten(_)
Flatten(chunks) == IF chunks = <<>> THEN <<>> ELSE Head(chunks).rows \o Flatten(Tail(chunks))

Delivered(j) == Flatten(ChunksOf(j))

Expected(j) ==
    SelectSeq(stored[j], LAMBDA r :
        r.resolves /\ start_timestamp <= r.timestamp /\ r.timestamp < end_timestamp)

IsPrefix(a, b) == Len(a) <= Len(b) /\ SubSeq(b, 1, Len(a)) = a

Terminal == gen \in {"done", "raised", "closed"}

\* C1: in no terminal state of the reader (exhausted, failed, abandoned) is a
\* connection it opened still open.
C1_ClosedOnEveryExit == Terminal => open = {}

\* C2: when a path is no file the reader raises FileNotFoundError before any chunk of
\* that database; every chunk of the earlier databases has been delivered, and the
\* later databases of the list are still read.
C2_MissingDbIsolated ==
    (gen = "raised" /\ err = Some("FileNotFoundError")) =>
        /\ ChunksOf(db_idx) = <<>>
        /\ \A j \in 0 .. db_idx - 1 : Delivered(j) = Expected(j)
        /\ \A j \in db_idx + 1 .. args[1].ndbs - 1 : j \in DOMAIN stored

\* C3: the databases are read one after the other in list order: at most one
\* connection is open at any time, the chunks arrive in list order of their
\* databases, the rows of a database arrive in the order of the query result, and
\* once a later database has been opened every earlier one has been delivered in full.
C3_Sequential ==
    /\ Cardinality(open) <= 1
    /\ \A k \in 1 .. Len(yielded) - 1 : yielded[k].db <= yielded[k + 1].db
    /\ \A j \in DOMAIN stored :
        /\ IsPrefix(Delivered(j), Expected(j))
        /\ \A i \in DOMAIN stored : i < j => Delivered(i) = Expected(i)
    /\ \A k \in 1 .. Len(yielded) : yielded[k].db \in DOMAIN stored

\* C3 witness: the second database is open after two chunks of the first.
C3_Witness == 1 \in open /\ Len(ChunksOf(0)) = 2 /\ Len(Delivered(0)) = 2

\* C4: the reader is lazy: never more chunks produced than requested, nothing done
\* before the first request, and a database is opened only by a request that
\* follows every chunk of the databases before it.
C4_LazyPull ==
    /\ Len(yielded) <= requests
    /\ requests = 0 => (open = {} /\ stored = <<>> /\ yielded = <<>>)
    /\ \A j \in DOMAIN stored :
        requests > Len(SelectSeq(yielded, LAMBDA c : c.db < j))
    /\ gen = "suspended" => Len(yielded) = requests

\* C4 witness: two requests answered by two chunks, the second from the second database.
C4_Witness ==
    /\ gen = "suspended" /\ requests = 2 /\ Len(yielded) = 2
    /\ yielded[1].db = 0 /\ yielded[2].db = 1 /\ yielded[2].rows # <<>>

\* C5: every yielded row lies in [start_ts, end_ts); no chunk is longer than
\* chunksize[db_idx]; no row is yielded twice; and when a database has been read to
\* its end every stored row in the window whose ids resolve has been yielded once.
C5_WindowedChunks ==
    /\ \A k \in 1 .. Len(yielded) :
        /\ Len(yielded[k].rows) <= chunksize[yielded[k].db]
        /\ \A n \in 1 .. Len(yielded[k].rows) :
            /\ start_timestamp <= yielded[k].rows[n].timestamp
            /\ yielded[k].rows[n].timestamp < end_timestamp
    /\ \A j \in DOMAIN stored :
        \A n \in 1 .. Len(stored[j]) :
            LET times == Len(SelectSeq(Delivered(j), LAMBDA r : r = stored[j][n]))
                wanted == /\ stored[j][n].resolves
                          /\ start_timestamp <= stored[j][n].timestamp
                          /\ stored[j][n].timestamp < end_timestamp
            IN  /\ times <= 1
                /\ ~wanted => times = 0
                /\ (j < db_idx /\ wanted) => times = 1

\* C5 witness: a database read to its end that held a row in the window and a row
\* outside it; the row in the window arrived.
C5_Witness ==
    /\ gen = "done"
    /\ \E j \in DOMAIN stored :
        /\ Len(stored[j]) = 2
        /\ Len(Expected(j)) = 1
        /\ Delivered(j) = Expected(j)

(***************************************************************************)
(* Enrichment and aggregation (process.py).  A frame is a sequence of rows;*)
(* a row is a record, a column one of its fields.                          *)
(***************************************************************************)
MaxFrameRows == 2     \* rows of a frame

\* process.py 96-97
allowed_statuses == {2, 3, 12, 13, 14, 17}
blocked_statuses == {1, 4, 5, 6, 7, 8, 9, 10, 11, 15, 16, 18}

MutStatusType(x) ==
    IF x \in allowed_statuses \ {17} THEN "Allowed"
    ELSE IF x \in blocked_statuses \cup {17} THEN "Blocked" ELSE "Other"

\* process.py 98-102
StatusType(x) ==
    IF x \in allowed_statuses THEN "Allowed"
    ELSE IF x \in blocked_statuses THEN "Blocked" ELSE "Other"

\* the local wall-clock second of an aware timestamp
LocalWall(ts) == ts.instant + OffsetAtUTC(ZoneInfo(ts.zone), ts.instant)

DayNames == <<"Thursday", "Friday", "Saturday", "Sunday", "Monday", "Tuesday", "Wednesday">>

\* process.py 85: pd.to_datetime(unit = "s", utc = True) reads a number as epoch
\* seconds; a timestamp that is already a zoned datetime (a row preprocess_df has
\* handled before) keeps its instant
to_datetime(r) == IF "date" \in DOMAIN r THEN r.timestamp.instant ELSE r.timestamp

\* process.py 85-105: the columns preprocess_df sets on one row
PreprocessRow(r, zone) ==
    LET ts   == [instant |-> to_datetime(r), zone |-> zone]
        wall == LocalWall(ts)
        hour == (wall % 86400) \div 3600
    IN  [date |-> wall - (wall % 86400),
         hour |-> hour,
         day_period |-> IF 6 <= hour /\ hour < 24 THEN "Day" ELSE "Night",
         status_type |-> StatusType(r.status),
         day_name |-> DayNames[((wall \div 86400) % 7) + 1]]
        @@ [r EXCEPT !.timestamp = ts]

\* process.py 84: sort_values("timestamp") with the default sort, which leaves the
\* order of rows with equal timestamps open
SortedOrders(frame) ==
    { p \in [1 .. Len(frame) -> 1 .. Len(frame)] :
        /\ \A a, b \in 1 .. Len(frame) : a # b => p[a] # p[b]
        /\ \A a, b \in 1 .. Len(frame) :
            a < b => to_datetime(frame[p[a]]) <= to_datetime(frame[p[b]]) }

\* process.py 77-81: an unknown zone name falls back to UTC
FrameZone(name) == IF name \in KnownZones THEN name ELSE "UTC"

MutResolveRow(r, hostname_map, display_mode) ==
    [client_ip |-> r.client, client |-> r.client] @@ r

\* process.py 50-67: the display value of one client
DisplayClient(ip, hostname_map, display_mode) ==
    IF display_mode = "ip" THEN ip
    ELSE IF display_mode = "both"
         THEN IF ip \in DOMAIN hostname_map
              THEN hostname_map[ip] \o " (" \o ip \o ")" ELSE ip
         ELSE IF ip \in DOMAIN hostname_map THEN hostname_map[ip] ELSE ip

\* process.py 48-67: client_ip takes the client column as it is, client the display value
ResolveRow(r, hostname_map, display_mode) ==
    [client_ip |-> r.client,
     client |-> DisplayClient(r.client, hostname_map, display_mode)] @@ r

\* process.py 11-16 and 21: a pattern is valid when re.compile accepts it; a valid
\* pattern is a text searched anywhere in the domain, at its start ("^text") or at
\* its end ("text$"), the empty text being found in every domain. A domain is the
\* sequence of its labels, or None for a missing value (na = False: no match).
Search(pattern, domain) ==
    IF domain = None THEN FALSE
    ELSE IF pattern.text = "" THEN TRUE
    ELSE IF pattern.anchor = "start" THEN domain[1] = pattern.text
    ELSE IF pattern.anchor = "end" THEN domain[Len(domain)] = pattern.text
    ELSE \E k \in 1 .. Len(domain) : domain[k] = pattern.text

MutKeepMatching(frame, pattern) ==
    IF pattern.valid
    THEN SelectSeq(frame, LAMBDA r : Search(pattern, r.domain))
    ELSE frame

\* process.py 19-27: df[~mask].reset_index(drop = True), or df itself
RegexIgnore(frame, pattern) ==
    IF pattern.valid
    THEN SelectSeq(frame, LAMBDA r : ~Search(pattern, r.domain))
    ELSE frame

\* process.py 135-155
QUERY_TYPES ==
    [t \in {1, 2, 5, 6, 12, 15, 16, 28, 33, 35, 39, 43, 46, 47, 48, 50, 51, 52, 257} |->
        CASE t = 1 -> "A (IPv4)" [] t = 2 -> "AAAA (IPv6)" [] t = 5 -> "CNAME"
          [] t = 6 -> "SOA" [] t = 12 -> "PTR" [] t = 15 -> "MX" [] t = 16 -> "TXT"
          [] t = 28 -> "AAAA (IPv6)" [] t = 33 -> "SRV" [] t = 35 -> "NAPTR"
          [] t = 39 -> "DNAME" [] t = 43 -> "DS" [] t = 46 -> "RRSIG" [] t = 47 -> "NSEC"
          [] t = 48 -> "DNSKEY" [] t = 50 -> "NSEC3" [] t = 51 -> "NSEC3PARAM"
          [] t = 52 -> "TLSA" [] OTHER -> "CAA"]

\* process.py 169-174
QueryTypeRow(r) ==
    [query_type |-> IF r.type \in DOMAIN QUERY_TYPES THEN QUERY_TYPES[r.type] ELSE "Other",
     ip_version |-> IF r.type \in {2, 28} THEN "IPv6"
                    ELSE IF r.type = 1 THEN "IPv4" ELSE "Other"] @@ r

\* A forwarder address is the sequence of the pieces it is written with; a marker
\* is "in" the address when it is one of the pieces.
Contains(address, marker) == \E k \in 1 .. Len(address) : address[k] = marker

MutRouterFirst(forward) ==
    IF forward = None THEN <<"Cached/Blocked">>
    ELSE IF Contains(forward[1], "192.168.50.1")
            \/ Contains(forward[1], "fe80::ce28:aaff:fe29:f650") THEN <<"Router">>
    ELSE IF Contains(forward[1], "127.0.0.1#5335") THEN <<"Unbound IPv4">>
    ELSE IF Contains(forward[1], "::1#5335") THEN <<"Unbound IPv6">>
    ELSE forward[1]

\* db.py 192-215; forward is None (a missing value) or <<address>>
categorize_dns_server(forward) ==
    IF forward = None THEN <<"Cached/Blocked">>
    ELSE IF Contains(forward[1], "127.0.0.1#5335") THEN <<"Unbound IPv4">>
    ELSE IF Contains(forward[1], "::1#5335") THEN <<"Unbound IPv6">>
    ELSE IF Contains(forward[1], "192.168.50.1")
            \/ Contains(forward[1], "fe80::ce28:aaff:fe29:f650") THEN <<"Router">>
    ELSE forward[1]

\* the forwarder mapping of a run: forwarder id -> address
ForwarderMap ==
    (1 :> <<"127.0.0.1#5335">>) @@ (2 :> <<"::1#5335">>) @@ (3 :> <<"192.168.50.1", "#53">>)
        @@ (4 :> <<"9.9.9.9", "#53">>)
        @@ (5 :> <<"127.0.0.1#5335", ",", "::1#5335">>)
        @@ (6 :> <<"::1#5335", "@", "192.168.50.1">>)
        @@ (7 :> <<"fe80::ce28:aaff:fe29:f650", "#53">>)
        @@ (8 :> <<"192.168.50.1", "0#53">>)
        @@ (9 :> <<"192.168.50.1", "/", "127.0.0.1#5335">>)

\* process.py 125-128: Series.map leaves a missing value where the id is absent
\* or not a key of the mapping
DnsRow(r, forwarder_map) ==
    LET dns_server == IF r.forward # None /\ r.forward[1] \in DOMAIN forwarder_map
                      THEN Some(forwarder_map[r.forward[1]]) ELSE None
    IN  [dns_server |-> dns_server, dns_category |-> categorize_dns_server(dns_server)] @@ r

\* ---- prepare_hourly_aggregated_data (process.py 180-214)
\* pd.Grouper(key = "timestamp", freq = "h"): hour bins counted from the local
\* midnight of the first row's day, as absolute instants
BinOrigin(frame) ==
    LET first == CHOOSE r \in {frame[k] : k \in 1 .. Len(frame)} :
                    \A k \in 1 .. Len(frame) : r.timestamp.instant <= frame[k].timestamp.instant
        wall == LocalWall(first.timestamp)
    IN  first.timestamp.instant - (wall % 86400)

Bucket(frame, ts) ==
    BinOrigin(frame) + ((ts.instant - BinOrigin(frame)) \div 3600) * 3600

MutGroupSizeDistinct(frame, column) ==
    { [timestamp |-> Bucket(frame, frame[k].timestamp), key |-> frame[k][column],
       client |-> frame[k].client, count |-> 1] : k \in 1 .. Len(frame) }

MutGroupSizeUnbound(frame, column) ==
    { [timestamp |-> Bucket(frame, frame[k].timestamp), key |-> frame[k][column],
       client |-> frame[k].client,
       count |-> Len(SelectSeq(frame, LAMBDA r :
                    /\ Bucket(frame, r.timestamp) = Bucket(frame, frame[k].timestamp)
                    /\ r[column] = frame[k][column]
                    /\ r.client = frame[k].client))] :
        k \in { i \in 1 .. Len(frame) :
                  column = "dns_category" =>
                      frame[i][column] \in {<<"Unbound IPv4">>, <<"Unbound IPv6">>} } }

\* groupby([Grouper, column, "client"]).size().reset_index(name = "count"): one row
\* for every combination of keys that occurs, with the number of its records
GroupSize(frame, column) ==
    { [timestamp |-> Bucket(frame, frame[k].timestamp), key |-> frame[k][column],
       client |-> frame[k].client,
       count |-> Len(SelectSeq(frame, LAMBDA r :
                    /\ Bucket(frame, r.timestamp) = Bucket(frame, frame[k].timestamp)
                    /\ r[column] = frame[k][column]
                    /\ r.client = frame[k].client))] : k \in 1 .. Len(frame) }

ClientCount(frame, c) == Len(SelectSeq(frame, LAMBDA r : r.client = c))

\* df["client"].value_counts().nlargest(n_clients).index.tolist(): the clients by
\* falling count, cut after n_clients; the order among equal counts is open
TopClients(frame, n_clients) ==
    LET clients == {frame[k].client : k \in 1 .. Len(frame)}
        len == Min(n_clients, Cardinality(clients))
    IN  { t \in [1 .. len -> clients] :
            /\ \A a, b \in 1 .. len : a # b => t[a] # t[b]
            /\ \A a, b \in 1 .. len :
                a < b => ClientCount(frame, t[a]) >= ClientCount(frame, t[b])
            /\ \A c \in clients :
                (\A a \in 1 .. len : t[a] # c) =>
                    \A a \in 1 .. len : ClientCount(frame, t[a]) >= ClientCount(frame, c) }

\* ---- the frames of the model
\* 2024-01-01 00:00:00 UTC
T0 == strptime(Date(2024, 1, 1))

RawRow(t, st, cl, ty, fw) ==
    [timestamp |-> t, status |-> st, client |-> cl, type |-> ty, forward |-> fw,
     domain |-> "example.org", reply_time |-> 5]

\* every status code from -1 to 20, at two times of the day
StatusRows ==
    { RawRow(t, st, "10.0.0.1", 1, None) : t \in {T0 + 600, T0 + 30000}, st \in -1 .. 20 }

\* rows of three hours (00:10, 00:30, 03:00 UTC), two clients, and three kinds of query
AggRows ==
    { RawRow(t, k[1], cl, k[2], k[3]) :
        t \in {T0 + 600, T0 + 1800, T0 + 10805},
        cl \in {"10.0.0.1", "10.0.0.2"},
        k \in {<<2, 1, Some(1)>>, <<3, 28, None>>, <<99, 65, Some(4)>>} }

\* the sum of the count column over a set of aggregate rows
RECURSIVE SumCount(_)
SumCount(rows) ==
    IF rows = {} THEN 0
    ELSE LET g == CHOOSE x \in rows : TRUE IN g.count + SumCount(rows \ {g})

Call(op, frame, a) == Some([op |-> op, df |-> frame, args |-> a])

\* the hostname mappings of a run (db.py 63-98 returns one): IP -> hostname
HostnameMaps ==
    { <<>>, ("10.0.0.1" :> "laptop"), ("10.0.0.1" :> "laptop") @@ ("10.0.0.2" :> "phone") }

\* the three documented display modes and a value that is none of them
DisplayModes == {"ip", "hostname", "both", "name"}

ResolveRows ==
    { RawRow(t, k[1], cl, k[2], k[3]) :
        t \in {T0 + 600, T0 + 1800},
        cl \in {"10.0.0.1", "10.0.0.2", "10.0.0.3"},
        k \in {<<2, 1, Some(1)>>} }

\* records with no forwarder id, with every id of the mapping, and with an id the
\* mapping does not have
DnsRows == { RawRow(T0 + 600, 2, "10.0.0.1", 1, fw) : fw \in {None} \cup {Some(i) : i \in 1 .. 10} }

\* "ads", "^ads", "com$", "", and two texts re.compile rejects: "(" and "[a-"
Patterns ==
    { [valid |-> TRUE, anchor |-> "none", text |-> "ads"],
      [valid |-> TRUE, anchor |-> "start", text |-> "ads"],
      [valid |-> TRUE, anchor |-> "end", text |-> "com"],
      [valid |-> TRUE, anchor |-> "none", text |-> ""],
      [valid |-> FALSE, anchor |-> "none", text |-> "("],
      [valid |-> FALSE, anchor |-> "none", text |-> "[a-"] }

\* ads.example.com, cdn.ads.net, example.org and a missing domain
Domains == { <<"ads", "example", "com">>, <<"cdn", "ads", "net">>, <<"example", "org">>, None }

RegexRows ==
    { [RawRow(T0 + 600, 2, cl, 1, None) EXCEPT !.domain = d] :
        cl \in {"10.0.0.1", "10.0.0.2"}, d \in Domains }

Frames(rows) == UNION { [1 .. n -> rows] : n \in 0 .. MaxFrameRows }

FrameZones == {"UTC", "Asia/Kolkata", "Mars/Olympus"}

Steps == {"preprocess_df", "process_dns_servers", "add_query_type_info"}

InitFrame(rows) ==
    /\ df \in Frames(rows)
    /\ stage = {}
    /\ timezone \in FrameZones
    /\ agg = None
    /\ last = None
    /\ ReaderIdle /\ WindowIdle /\ PlannerIdle /\ LoaderIdle

preprocess_df ==
    /\ "preprocess_df" \notin stage /\ agg = None
    /\ \E p \in SortedOrders(df) :
        df' = [k \in 1 .. Len(df) |-> PreprocessRow(df[p[k]], FrameZone(timezone))]
    /\ stage' = stage \cup {"preprocess_df"}
    /\ UNCHANGED <<timezone, agg, last, readerVars, windowVars, plannerVars, loaderVars>>

process_dns_servers ==
    /\ "process_dns_servers" \notin stage /\ agg = None
    /\ df' = [k \in 1 .. Len(df) |-> DnsRow(df[k], ForwarderMap)]
    /\ stage' = stage \cup {"process_dns_servers"}
    /\ UNCHANGED <<timezone, agg, last, readerVars, windowVars, plannerVars, loaderVars>>

add_query_type_info ==
    /\ "add_query_type_info" \notin stage /\ agg = None
    /\ df' = [k \in 1 .. Len(df) |-> QueryTypeRow(df[k])]
    /\ stage' = stage \cup {"add_query_type_info"}
    /\ UNCHANGED <<timezone, agg, last, readerVars, windowVars, plannerVars, loaderVars>>

prepare_hourly_aggregated_data ==
    /\ stage = Steps /\ agg = None
    /\ \E n_clients \in 1 .. 2 :
        \E top \in TopClients(df, n_clients) :
            agg' = Some([hourly_agg |-> GroupSize(df, "status_type"),
                         top_clients |-> top,
                         unbound_trend_agg |-> GroupSize(df, "dns_category"),
                         query_type_trend_agg |-> GroupSize(df, "query_type")])
    /\ UNCHANGED <<df, stage, timezone, last, readerVars, windowVars, plannerVars, loaderVars>>

\* process.py 30-69
resolve_hostnames ==
    /\ "resolve_hostnames" \notin stage /\ agg = None
    /\ \E hostname_map \in HostnameMaps, display_mode \in DisplayModes :
        /\ df' = [k \in 1 .. Len(df) |-> ResolveRow(df[k], hostname_map, display_mode)]
        /\ last' = Call("resolve_hostnames", df,
                        [hostname_map |-> hostname_map, display_mode |-> display_mode])
    /\ stage' = stage \cup {"resolve_hostnames"}
    /\ UNCHANGED <<timezone, agg, readerVars, windowVars, plannerVars, loaderVars>>

\* process.py 19-27
regex_ignore_domains ==
    /\ "regex_ignore_domains" \notin stage /\ agg = None
    /\ \E pattern \in Patterns :
        /\ df' = RegexIgnore(df, pattern)
        /\ last' = Call("regex_ignore_domains", df, pattern)
    /\ stage' = stage \cup {"regex_ignore_domains"}
    /\ UNCHANGED <<timezone, agg, readerVars, windowVars, plannerVars, loaderVars>>

\* the domain exclusion on its own
InitRegex == InitFrame(RegexRows)
NextRegex == regex_ignore_domains
SpecRegex == InitRegex /\ [][NextRegex]_vars

\* the status classification on its own
InitEnrich == InitFrame(StatusRows)
NextEnrich == preprocess_df
SpecEnrich == InitEnrich /\ [][NextEnrich]_vars

\* process.py 30-177: resolve_hostnames, preprocess_df, process_dns_servers and
\* add_query_type_info applied in this order; p is the order sort_values settles on
Enrich(frame, a, zone, p) ==
    [k \in 1 .. Len(frame) |->
        QueryTypeRow(DnsRow(PreprocessRow(
            ResolveRow(frame[p[k]], a.hostname_map, a.display_mode), FrameZone(zone)),
            ForwarderMap))]

\* the enrichment of a frame, and the same enrichment (same mapping, mode and zone)
\* of its own output
enrichment ==
    /\ "enrichment again" \notin stage /\ agg = None
    /\ \E a \in IF last = None
                THEN [hostname_map : HostnameMaps, display_mode : DisplayModes]
                ELSE {last[1].args} :
        \E p \in SortedOrders(df) :
            /\ df' = Enrich(df, a, timezone, p)
            /\ last' = Call("enrichment", df, a)
    /\ stage' = stage \cup {IF "enrichment" \in stage THEN "enrichment again" ELSE "enrichment"}
    /\ UNCHANGED <<timezone, agg, readerVars, windowVars, plannerVars, loaderVars>>

\* the enrichment applied twice
InitTwice == InitFrame(ResolveRows)
NextTwice == enrichment
SpecTwice == InitTwice /\ [][NextTwice]_vars

\* the DNS categorisation on its own
InitDns == InitFrame(DnsRows)
NextDns == process_dns_servers
SpecDns == InitDns /\ [][NextDns]_vars

\* hostname resolution on its own
InitResolve == InitFrame(ResolveRows)
NextResolve == resolve_hostnames
SpecResolve == InitResolve /\ [][NextResolve]_vars

\* enrichment followed by aggregation
InitAgg == InitFrame(AggRows)
NextAgg ==
    \/ preprocess_df
    \/ process_dns_servers
    \/ add_query_type_info
    \/ prepare_hourly_aggregated_data
SpecAgg == InitAgg /\ [][NextAgg]_vars

\* C9: the status classification is total: every row gets exactly one of Allowed,
\* Blocked, Other; 2,3,12,13,14,17 give Allowed, 1,4,5,6,7,8,9,10,11,15,16,18 give
\* Blocked, every other code gives Other; the two sets are disjoint.
C9_StatusTotal ==
    /\ allowed_statuses \cap blocked_statuses = {}
    /\ "preprocess_df" \in stage =>
        \A k \in 1 .. Len(df) :
            /\ df[k].status_type \in {"Allowed", "Blocked", "Other"}
            /\ df[k].status_type = "Allowed" <=> df[k].status \in {2, 3, 12, 13, 14, 17}
            /\ df[k].status_type = "Blocked" <=>
                    df[k].status \in {1, 4, 5, 6, 7, 8, 9, 10, 11, 15, 16, 18}
            /\ df[k].status_type = "Other" <=>
                    df[k].status \notin {1, 2, 3, 4, 5, 6, 7, 8, 9, 10, 11, 12, 13, 14, 15,
                                         16, 17, 18}

\* C9 witness: a classified frame with an allowed code and a code of neither set.
C9_Witness ==
    /\ "preprocess_df" \in stage /\ Len(df) = 2
    /\ \E a, b \in 1 .. 2 :
        /\ df[a].status = 17 /\ df[a].status_type = "Allowed"
        /\ df[b].status = 0 /\ df[b].status_type = "Other"

\* C10: for every hour bucket, the counts of hourly_agg over all status_type and
\* client values of the bucket add up to the number of records whose timestamp falls
\* in that hour; over all buckets they add up to the number of records.
C10_BucketSums ==
    agg # None =>
        LET table == agg[1].hourly_agg
            hours == {df[k].timestamp.instant - ((LocalWall(df[k].timestamp)) % 3600) :
                        k \in 1 .. Len(df)}
            SumOf(rows) ==
                LET RECURSIVE S(_)
                    S(rs) == IF rs = {} THEN 0
                             ELSE LET x == CHOOSE x \in rs : TRUE IN x.count + S(rs \ {x})
                IN  S(rows)
        IN  /\ \A h \in hours :
                SumOf({g \in table : g.timestamp = h}) =
                    Cardinality({k \in 1 .. Len(df) :
                        h <= df[k].timestamp.instant /\ df[k].timestamp.instant < h + 3600})
            /\ \A g \in table : g.timestamp \in hours /\ g.count >= 1
            /\ SumOf(table) = Len(df)

\* C10 witness: an aggregate with two rows for one hour bucket, from two records
\* of that hour that differ in status type.
C10_Witness ==
    /\ agg # None /\ Len(df) = 2
    /\ \E g1, g2 \in agg[1].hourly_agg :
        g1.timestamp = g2.timestamp /\ g1.key # g2.key /\ g1.client = g2.client

AggTables ==
    IF agg = None THEN <<>>
    ELSE <<agg[1].hourly_agg, agg[1].unbound_trend_agg, agg[1].query_type_trend_agg>>

LowestBucket(table) == CHOOSE t \in {g.timestamp : g \in table} : \A g \in table : t <= g.timestamp

HighestBucket(table) == CHOOSE t \in {g.timestamp : g \in table} : \A g \in table : t >= g.timestamp

HoursBetween(lo, hi) == { t \in lo .. hi : (t - lo) % 3600 = 0 }

\* C11: every table returned by prepare_hourly_aggregated_data has a row for every hour
\* bucket from its lowest to its highest bucket and every category present in it (the
\* rows of the hours without records carrying count 0).
C11_GapsFilled ==
    \A i \in DOMAIN AggTables :
        LET table == AggTables[i] IN
        table # {} =>
            \A t \in HoursBetween(LowestBucket(table), HighestBucket(table)) :
                \A a \in table :
                    \E g \in table : g.timestamp = t /\ g.key = a.key

\* C13: resolve_hostnames sets client_ip of every record to the client value it was
\* given (the source IP) and client to the display value of the mode: "ip" the IP,
\* "hostname" the mapped hostname or the IP when the mapping has none, "both" the
\* text "Hostname (IP)" or the bare IP; the other columns, the number of records and
\* their order stay as they were.
C13_DisplayModes ==
    (last # None /\ last[1].op = "resolve_hostnames") =>
        LET before == last[1].df
            map == last[1].args.hostname_map
            mode == last[1].args.display_mode
        IN  /\ Len(df) = Len(before)
            /\ \A k \in 1 .. Len(df) :
                LET ip == before[k].client IN
                /\ df[k].client_ip = ip
                /\ mode = "ip" => df[k].client = ip
                /\ (mode = "hostname" /\ ip \in DOMAIN map) => df[k].client = map[ip]
                /\ (mode = "hostname" /\ ip \notin DOMAIN map) => df[k].client = ip
                /\ (mode = "both" /\ ip \in DOMAIN map) =>
                        df[k].client = map[ip] \o " (" \o ip \o ")"
                /\ (mode = "both" /\ ip \notin DOMAIN map) => df[k].client = ip
                /\ \A c \in DOMAIN before[k] \ {"client"} : df[k][c] = before[k][c]
                /\ DOMAIN df[k] = DOMAIN before[k] \cup {"client_ip"}

\* mode "both" over a mapped and an unmapped client, in this order
C13_Witness ==
    /\ last # None /\ last[1].op = "resolve_hostnames"
    /\ last[1].args.display_mode = "both"
    /\ Len(df) = 2
    /\ last[1].df[1].client = "10.0.0.3" /\ last[1].df[2].client = "10.0.0.1"
    /\ df[1].client = "10.0.0.3" /\ df[1].client_ip = "10.0.0.3"
    /\ df[2].client = "laptop (10.0.0.1)" /\ df[2].client_ip = "10.0.0.1"

Occurrences(frame, r) == Len(SelectSeq(frame, LAMBDA x : x = r))

\* C12: the enrichment is idempotent: applied to its own output it yields the records
\* it was given, whatever their order; in particular client and client_ip are as the
\* first application left them.
C12_Idempotent ==
    "enrichment again" \in stage =>
        /\ Len(df) = Len(last[1].df)
        /\ \A k \in 1 .. Len(df) : Occurrences(df, df[k]) = Occurrences(last[1].df, df[k])

\* C14: a record with no forwarder id, or with an id the mapping has no address for,
\* is categorised Cached/Blocked. Otherwise the first marker the address contains
\* decides, in this order: the Unbound IPv4 marker, the Unbound IPv6 marker, a router
\* address; an address with none of them is its own category.
C14_Priority ==
    "process_dns_servers" \in stage =>
        \A k \in 1 .. Len(df) :
            LET fw == df[k].forward
                map == ForwarderMap
                known == fw # None /\ fw[1] \in DOMAIN map
                address == map[fw[1]]
                v4 == Contains(address, "127.0.0.1#5335")
                v6 == Contains(address, "::1#5335")
                router == Contains(address, "192.168.50.1")
                            \/ Contains(address, "fe80::ce28:aaff:fe29:f650")
                category == df[k].dns_category
            IN  /\ ~known => category = <<"Cached/Blocked">>
                /\ (known /\ v4) => category = <<"Unbound IPv4">>
                /\ (known /\ ~v4 /\ v6) => category = <<"Unbound IPv6">>
                /\ (known /\ ~v4 /\ ~v6 /\ router) => category = <<"Router">>
                /\ (known /\ ~v4 /\ ~v6 /\ ~router) => category = address

\* an address with a router address and the Unbound IPv4 marker, and one with the
\* Unbound IPv6 marker and a router address
C14_Witness ==
    /\ "process_dns_servers" \in stage /\ Len(df) = 2
    /\ df[1].forward = Some(9) /\ df[1].dns_category = <<"Unbound IPv4">>
    /\ df[2].forward = Some(6) /\ df[2].dns_category = <<"Unbound IPv6">>

\* C15: with a pattern that does not compile regex_ignore_domains returns the records
\* unchanged; with a valid pattern it drops exactly the records whose domain the
\* pattern is found in and keeps the others in their order.
C15_RegexFilter ==
    (last # None /\ last[1].op = "regex_ignore_domains") =>
        LET before == last[1].df
            pattern == last[1].args
            kept == { k \in 1 .. Len(before) : ~Search(pattern, before[k].domain) }
            nth(j) == CHOOSE k \in kept : Cardinality({ i \in kept : i < k }) = j - 1
        IN  IF pattern.valid
            THEN /\ Len(df) = Cardinality(kept)
                 /\ \A j \in 1 .. Len(df) : df[j] = before[nth(j)]
            ELSE df = before

\* "ads" drops ads.example.com and keeps example.org
C15_Witness ==
    /\ last # None /\ last[1].op = "regex_ignore_domains" /\ Len(last[1].df) = 2
    /\ last[1].df[1].domain = <<"ads", "example", "com">>
    /\ last[1].df[2].domain = <<"example", "org">>
    /\ last[1].args.valid /\ last[1].args.text = "ads" /\ last[1].args.anchor = "none"
    /\ df = <<last[1].df[2]>>

(***************************************************************************)
(* The mapping loaders (db.py 63-189, 265-301).                            *)
(***************************************************************************)
MaxLoaderRows == 2

LoaderNames ==
    {"load_hostname_mapping", "load_client_mac_mapping", "load_forwarder_mapping",
     "load_device_activity"}

\* the number of queries a loader runs
QueryCount(name) == IF name = "load_client_mac_mapping" THEN 2 ELSE 1

\* str.lower on the hardware addresses of the model
Lower(mac) == IF mac = "AA:BB:01" THEN "aa:bb:01" ELSE mac

\* d[k] = v
Put(d, k, v) == [x \in DOMAIN d \cup {k} |-> IF x = k THEN v ELSE d[x]]

\* for key, value in rows: d[key] = value, from row n on
RECURSIVE FillLastSeen(_, _, _)
FillLastSeen(d, rows, n) ==
    IF n > Len(rows) THEN d
    ELSE FillLastSeen(Put(d, rows[n][1], rows[n][2]), rows, n + 1)

\* for key, value in rows: if key not in d: d[key] = value, from row n on
RECURSIVE FillFirstSeen(_, _, _)
FillFirstSeen(d, rows, n) ==
    IF n > Len(rows) THEN d
    ELSE FillFirstSeen(IF rows[n][1] \in DOMAIN d THEN d
                       ELSE Put(d, rows[n][1], rows[n][2]), rows, n + 1)

\* the rows a loader's q-th query can return, as <<first column, rest>>
ResultPairs(name, q) ==
    CASE name = "load_hostname_mapping" ->
            {"10.0.0.1", "10.0.0.2"} \X {"laptop", "phone"}
      [] name = "load_client_mac_mapping" /\ q = 1 ->
            {<<"10.0.0.1", "AA:BB:01">>, <<"10.0.0.2", "aa:bb:02">>}
      [] name = "load_client_mac_mapping" /\ q = 2 ->
            {"AA:BB:01", "aa:bb:01"} \X {"laptop", "phone"}
      [] name = "load_forwarder_mapping" ->
            {1, 2} \X {"127.0.0.1#5335", "9.9.9.9#53"}
      [] OTHER ->
            {"AA:BB:01", "aa:bb:01"}
                \X {[numQueries |-> 10, macVendor |-> None],
                    [numQueries |-> 20, macVendor |-> Some("Acme")]}

ResultSeqs(name, q) == UNION { [1 .. n -> ResultPairs(name, q)] : n \in 0 .. MaxLoaderRows }

\* the loop over cursor.fetchall() of each query (db.py 83-86, 122-123, 135-139,
\* 174-177, 284-291)
Absorb(f, rows) ==
    CASE f.name = "load_hostname_mapping" -> [f EXCEPT !.a = FillLastSeen(<<>>, rows, 1)]
      [] f.name = "load_client_mac_mapping" /\ f.q = 1 ->
            [f EXCEPT !.a = FillLastSeen(f.a,
                [k \in 1 .. Len(rows) |-> <<rows[k][1], Lower(rows[k][2])>>], 1)]
      [] f.name = "load_client_mac_mapping" /\ f.q = 2 ->
            [f EXCEPT !.b = FillFirstSeen(f.b,
                [k \in 1 .. Len(rows) |-> <<Lower(rows[k][1]), rows[k][2]>>], 1)]
      [] f.name = "load_forwarder_mapping" -> [f EXCEPT !.a = FillLastSeen(<<>>, rows, 1)]
      [] OTHER ->
            [f EXCEPT !.a = FillLastSeen(f.a,
                [k \in 1 .. Len(rows) |->
                    <<Lower(rows[k][1]),
                      [lifetime_queries |-> rows[k][2].numQueries,
                       vendor |-> IF rows[k][2].macVendor = None THEN "Unknown"
                                  ELSE rows[k][2].macVendor[1]]>>], 1)]

\* the except clause: load_hostname_mapping and load_forwarder_mapping set their
\* mapping to {} (db.py 90-93, 181-184); load_client_mac_mapping and
\* load_device_activity only log (db.py 143-144, 295-296)
Handler(f) ==
    IF f.name \in {"load_hostname_mapping", "load_forwarder_mapping"}
    THEN [f EXCEPT !.a = <<>>]
    ELSE f

MutCloseOnSuccess(f, n) == IF f.failed THEN n ELSE n - 1

\* finally: conn.close()
Finally(f, n) == n - 1

\* conn = connect_to_sql(db_path); cursor = conn.cursor()
LoaderCall ==
    /\ loader = None
    /\ \E name \in LoaderNames :
        loader' = Some([name |-> name, pc |-> "query", q |-> 1, a |-> <<>>, b |-> <<>>,
                        fetched |-> <<>>, failed |-> FALSE])
    /\ l_open' = l_open + 1
    /\ l_ret' = None
    /\ UNCHANGED <<readerVars, windowVars, plannerVars, frameVars>>

\* connect_to_sql raises FileNotFoundError (db.py 24-30), outside the try
LoaderCallMissing ==
    /\ loader = None
    /\ \E name \in LoaderNames :
        l_ret' = Some([name |-> name, raised |-> Some("FileNotFoundError"), a |-> <<>>,
                       b |-> <<>>, fetched |-> <<>>, failed |-> FALSE])
    /\ UNCHANGED <<loader, l_open, readerVars, windowVars, plannerVars, frameVars>>

\* cursor.execute(query) and the loop over its rows
LoaderQuery ==
    /\ loader # None /\ loader[1].pc = "query"
    /\ \E rows \in ResultSeqs(loader[1].name, loader[1].q) :
        LET f == Absorb(loader[1], rows) IN
        loader' = Some([f EXCEPT !.fetched = Append(@, rows),
                                 !.q = @ + 1,
                                 !.pc = IF f.q < QueryCount(f.name) THEN "query"
                                        ELSE "finally"])
    /\ UNCHANGED <<l_open, l_ret, readerVars, windowVars, plannerVars, frameVars>>

\* cursor.execute(query) raises; the except clause runs
LoaderQueryError ==
    /\ loader # None /\ loader[1].pc = "query"
    /\ loader' = Some([Handler(loader[1]) EXCEPT !.failed = TRUE, !.pc = "finally"])
    /\ UNCHANGED <<l_open, l_ret, readerVars, windowVars, plannerVars, frameVars>>

LoaderFinally ==
    /\ loader # None /\ loader[1].pc = "finally"
    /\ l_open' = Finally(loader[1], l_open)
    /\ loader' = Some([loader[1] EXCEPT !.pc = "return"])
    /\ UNCHANGED <<l_ret, readerVars, windowVars, plannerVars, frameVars>>

LoaderReturn ==
    /\ loader # None /\ loader[1].pc = "return"
    /\ l_ret' = Some([name |-> loader[1].name, raised |-> None, a |-> loader[1].a,
                      b |-> loader[1].b, fetched |-> loader[1].fetched,
                      failed |-> loader[1].failed])
    /\ loader' = None
    /\ UNCHANGED <<l_open, readerVars, windowVars, plannerVars, frameVars>>

InitLoaders == LoaderIdle /\ ReaderIdle /\ WindowIdle /\ PlannerIdle /\ FrameIdle
NextLoaders ==
    \/ LoaderCall
    \/ LoaderCallMissing
    \/ LoaderQuery
    \/ LoaderQueryError
    \/ LoaderFinally
    \/ LoaderReturn
SpecLoaders == InitLoaders /\ [][NextLoaders]_vars

\* C16: when one of a loader's queries fails, the loader returns normally and every
\* mapping it returns is empty, also when the second of two queries fails after the
\* first succeeded.
C16_EmptyOnFailure ==
    (l_ret # None /\ l_ret[1].failed) =>
        /\ l_ret[1].raised = None
        /\ l_ret[1].a = <<>>
        /\ l_ret[1].b = <<>>

\* C17: a loader has closed its connection when it returns, with or without a query
\* failure: whenever no loader call is in progress no loader connection is open.
C17_ClosedOnReturn ==
    /\ l_open \in {0, 1}
    /\ (loader = None \/ loader[1].pc = "return") => l_open = 0
    /\ (loader # None /\ loader[1].pc # "return") => l_open = 1

\* load_client_mac_mapping has returned after its second query failed
C17_Witness ==
    /\ l_ret # None /\ l_ret[1].raised = None /\ l_open = 0 /\ loader = None
    /\ l_ret[1].name = "load_client_mac_mapping"
    /\ l_ret[1].failed /\ Len(l_ret[1].fetched) = 1

\* the first row of rows whose key, lowercased, is key
FirstRow(rows, key) ==
    CHOOSE k \in 1 .. Len(rows) :
        /\ Lower(rows[k][1]) = key
        /\ \A j \in 1 .. (k - 1) : Lower(rows[j][1]) # key

\* C18: when a key is on several rows of a loader's result, the mapping keeps the name
\* of the first of these rows: in the MAC-to-hostname mapping (keyed by the lowercased
\* MAC) and in the IP-to-hostname mapping (keyed by the IP).
C18_FirstSeenWins ==
    (l_ret # None /\ l_ret[1].raised = None /\ ~l_ret[1].failed) =>
        /\ l_ret[1].name = "load_client_mac_mapping" =>
            LET rows == l_ret[1].fetched[2] IN
            \A k \in 1 .. Len(rows) :
                l_ret[1].b[Lower(rows[k][1])] = rows[FirstRow(rows, Lower(rows[k][1]))][2]
        /\ l_ret[1].name = "load_hostname_mapping" =>
            LET rows == l_ret[1].fetched[1] IN
            \A k \in 1 .. Len(rows) :
                l_ret[1].a[rows[k][1]] = rows[FirstRow(rows, rows[k][1])][2]

\* the counts of a table's rows for one hour bucket and client
Slice(table, t, c) == SumCount({ g \in table : g.timestamp = t /\ g.client = c })

\* C19: the three aggregate tables agree under slicing: for every hour bucket and
\* client the counts of hourly_agg over status_type, of unbound_trend_agg over
\* dns_category and of query_type_trend_agg over query_type have the same sum, and
\* the counts of each table add up to the number of records aggregated.
C19_TablesAgree ==
    agg # None =>
        /\ \A k \in 1 .. Len(df) :
            LET t == Bucket(df, df[k].timestamp)
                c == df[k].client
            IN  /\ Slice(agg[1].hourly_agg, t, c) = Slice(agg[1].unbound_trend_agg, t, c)
                /\ Slice(agg[1].hourly_agg, t, c) = Slice(agg[1].query_type_trend_agg, t, c)
        /\ \A i \in DOMAIN AggTables :
            /\ SumCount(AggTables[i]) = Len(df)
            /\ \A g \in AggTables[i] :
                \E k \in 1 .. Len(df) :
                    Bucket(df, df[k].timestamp) = g.timestamp /\ df[k].client = g.client

\* two records of one hour and client fall into one row of hourly_agg and into two
\* rows of each of the other tables
C19_Witness ==
    /\ agg # None /\ Len(df) = 2
    /\ df[1].client = df[2].client
    /\ \E g \in agg[1].hourly_agg : g.count = 2
    /\ Cardinality(agg[1].unbound_trend_agg) = 2
    /\ Cardinality(agg[1].query_type_trend_agg) = 2
    /\ \A g \in agg[1].unbound_trend_agg : g.timestamp = Bucket(df, df[1].timestamp)

====
